---- MODULE Spec2Model ----
(***************************************************************************)
(* GPScoordinatesInterpolation (src/main.cpp): load_geoid_model reads a     *)
(* tab-separated geoid table into a GeoidModel, find_grid_indices locates   *)
(* the cell of a query, interpolate_geoid_height interpolates bilinearly    *)
(* and compute_topographic_height subtracts the result from the ellipsoid   *)
(* height.                                                                  *)
(*                                                                          *)
(* A C++ double is modelled as a binary floating-point number m * 2^e with  *)
(* a significand of MantBits bits (53 in the program), round-to-nearest,    *)
(* ties-to-even, plus the infinities and NaN.  The exponent is unbounded    *)
(* (no overflow to infinity, no subnormals) and the sign of zero is not     *)
(* kept (every zero divisor the program forms is +0).                       *)
(***************************************************************************)
EXTENDS Integers, Sequences, FiniteSets, TLC

\* Bits of significand of the modelled double (the program's double has 53).
MantBits == 8
\* Largest number of data rows of an input file.
MaxRows == 3

INT_MAX == 2147483647
INT_MIN == (-2147483647) - 1
\* Width of int: a double of magnitude 2^IntBits or more does not fit.
IntBits == 31

----------------------------------------------------------------------------
(* double *)

Fin(m, e) == [k |-> "fin", m |-> m, e |-> e]
NaN == [k |-> "nan", m |-> 0, e |-> 0]
PosInf == [k |-> "inf", m |-> 1, e |-> 0]
NegInf == [k |-> "inf", m |-> -1, e |-> 0]
Inf(s) == IF s < 0 THEN NegInf ELSE PosInf
DZero == Fin(0, 0)

Abs(a) == IF a < 0 THEN -a ELSE a
Sgn(a) == IF a < 0 THEN -1 ELSE 1

\* The number of bits of a >= 0.
RECURSIVE BitLen(_)
BitLen(a) ==
    IF a >= 256 THEN 8 + BitLen(a \div 256)
    ELSE IF a >= 16 THEN 4 + BitLen(a \div 16)
    ELSE IF a >= 4 THEN 2 + BitLen(a \div 4)
    ELSE IF a >= 2 THEN 2
    ELSE a

\* The canonical form of m * 2^e: an odd significand, or zero.
RECURSIVE NormME(_, _)
NormME(m, e) ==
    IF m = 0 THEN DZero
    ELSE IF m % 2 = 0 THEN NormME(m \div 2, e + 1)
    ELSE Fin(m, e)

\* m * 2^e rounded to MantBits bits of significand, ties to even.
RoundME(m, e) ==
    LET a == Abs(m)
        s == BitLen(a) - MantBits
    IN  IF s <= 0 THEN NormME(m, e)
        ELSE LET q == a \div (2^s)
                 r == a % (2^s)
                 half == 2^(s - 1)
                 up == r > half \/ (r = half /\ q % 2 = 1)
             IN  NormME(Sgn(m) * (IF up THEN q + 1 ELSE q), e + s)

\* int -> double
FromInt(i) == RoundME(i, 0)

DNeg(x) == [x EXCEPT !.m = -x.m]

\* An operand 2^(2*MantBits+1) times smaller than the other is below a
\* quarter of its unit in the last place: the sum rounds to the larger.
DAdd(x, y) ==
    IF x.k = "nan" \/ y.k = "nan" THEN NaN
    ELSE IF x.k = "inf" /\ y.k = "inf" THEN (IF x.m = y.m THEN x ELSE NaN)
    ELSE IF x.k = "inf" THEN x
    ELSE IF y.k = "inf" THEN y
    ELSE IF x.m = 0 THEN y
    ELSE IF y.m = 0 THEN x
    ELSE IF x.e - y.e > 2 * MantBits THEN x
    ELSE IF y.e - x.e > 2 * MantBits THEN y
    ELSE LET e == IF x.e < y.e THEN x.e ELSE y.e
         IN  RoundME(x.m * 2^(x.e - e) + y.m * 2^(y.e - e), e)

DSub(x, y) == DAdd(x, DNeg(y))

DMul(x, y) ==
    IF x.k = "nan" \/ y.k = "nan" THEN NaN
    ELSE IF x.k = "inf" \/ y.k = "inf"
         THEN (IF x.m = 0 \/ y.m = 0 THEN NaN ELSE Inf(Sgn(x.m) * Sgn(y.m)))
    ELSE RoundME(x.m * y.m, x.e + y.e)

DDiv(x, y) ==
    IF x.k = "nan" \/ y.k = "nan" THEN NaN
    ELSE IF x.k = "inf" THEN (IF y.k = "inf" THEN NaN ELSE Inf(Sgn(x.m) * Sgn(y.m)))
    ELSE IF y.k = "inf" THEN DZero
    ELSE IF y.m = 0 THEN (IF x.m = 0 THEN NaN ELSE Inf(Sgn(x.m)))
    ELSE LET sh == 2 * MantBits + 1
             n == Abs(x.m) * 2^sh
             q == n \div Abs(y.m)
             sticky == IF n % Abs(y.m) = 0 THEN 0 ELSE 1
         IN  RoundME(Sgn(x.m) * Sgn(y.m) * (2 * q + sticky), x.e - y.e - sh - 1)

\* std::floor and std::ceil
DFloor(x) ==
    IF x.k # "fin" \/ x.e >= 0 THEN x
    ELSE IF -x.e >= IntBits THEN (IF x.m < 0 THEN FromInt(-1) ELSE DZero)
    ELSE FromInt(x.m \div (2^(-x.e)))

DCeil(x) == DNeg(DFloor(DNeg(x)))

\* x < y, x = y on doubles (false on NaN)
DLt(x, y) == LET d == DSub(y, x) IN d.k # "nan" /\ d.m > 0
DLe(x, y) == LET d == DSub(y, x) IN d.k # "nan" /\ d.m >= 0
IsFinite(x) == x.k = "fin"

----------------------------------------------------------------------------
(* static_cast<int>(double), lines 64-67.  A value that does not fit in int  *)
(* (NaN, an infinity, magnitude 2^31 or more) is undefined behaviour; the    *)
(* build decides what comes out: "indefinite" is the x86-64 conversion       *)
(* (cvttsd2si yields INT_MIN for every such value), "saturate" the AArch64   *)
(* one (fcvtzs: NaN to 0, otherwise the nearest end of the int range).       *)

Conversions == {"indefinite", "saturate"}

FitsInt(x) == x.k = "fin" /\ (x.m = 0 \/ (x.e < IntBits /\ BitLen(Abs(x.m)) + x.e <= IntBits))

\* Truncation toward zero of a finite double that fits.
TruncInt(x) ==
    IF x.e >= 0 THEN x.m * 2^(x.e)
    ELSE IF -x.e >= IntBits THEN 0
    ELSE Sgn(x.m) * (Abs(x.m) \div (2^(-x.e)))

StaticCastInt(x, cvt) ==
    IF FitsInt(x) THEN TruncInt(x)
    ELSE IF cvt = "indefinite" THEN INT_MIN
    ELSE IF x.k = "nan" THEN 0
    ELSE IF x.m < 0 THEN INT_MIN
    ELSE INT_MAX

Min(a, b) == IF b < a THEN b ELSE a
Max(a, b) == IF a < b THEN b ELSE a

----------------------------------------------------------------------------
(* struct GeoidModel, lines 40-49 *)

GeoidModel(nr, nc, latmin, lonmin, latstep, lonstep, d) ==
    [nrows |-> nr, ncols |-> nc, lat_min |-> latmin, lon_min |-> lonmin,
     lat_step |-> latstep, lon_step |-> lonstep, data |-> d]

\* "GeoidModel model;" of line 100, before any field is assigned.
EmptyModel == GeoidModel(0, 0, DZero, DZero, DZero, DZero, <<>>)

\* model.data[idx] with a 0-based idx inside the buffer.
InBuffer(d, idx) == idx >= 0 /\ idx < Len(d)
\* What a read outside the buffer is taken to yield where the model has to
\* go on (the queries make no such read: C2_ReadsInBounds).
Stray == NaN
DataAt(m, idx) == IF InBuffer(m.data, idx) THEN m.data[idx + 1] ELSE Stray

----------------------------------------------------------------------------
(* find_grid_indices, lines 52-74 *)

\* ClampIndex with the upper end one too far: [0, n].
ClampIndex_UpToN(v, n) == Max(0, Min(v, n))

\* Clamp the indices to the range [0, n-1], lines 70-73.
ClampIndex(v, n) == Max(0, Min(v, n - 1))

\* find_grid_indices taking the cell after the clamped low index as the high
\* one (row2 = row1 + 1, col2 = col1 + 1) instead of the clamped ceiling.
find_grid_indices_NextCell(m, lat, lon, cvt) ==
    LET row == DDiv(DSub(lat, m.lat_min), m.lat_step)
        col == DDiv(DSub(lon, m.lon_min), m.lon_step)
        r1 == ClampIndex(StaticCastInt(DFloor(row), cvt), m.nrows)
        c1 == ClampIndex(StaticCastInt(DFloor(col), cvt), m.ncols)
    IN  [row1 |-> r1, col1 |-> c1,
         row2 |-> ClampIndex(r1 + 1, m.nrows), col2 |-> ClampIndex(c1 + 1, m.ncols)]

find_grid_indices(m, lat, lon, cvt) ==
    LET row == DDiv(DSub(lat, m.lat_min), m.lat_step)
        col == DDiv(DSub(lon, m.lon_min), m.lon_step)
    IN  [row1 |-> ClampIndex(StaticCastInt(DFloor(row), cvt), m.nrows),
         col1 |-> ClampIndex(StaticCastInt(DFloor(col), cvt), m.ncols),
         row2 |-> ClampIndex(StaticCastInt(DCeil(row), cvt), m.nrows),
         col2 |-> ClampIndex(StaticCastInt(DCeil(col), cvt), m.ncols)]

----------------------------------------------------------------------------
(* interpolate_geoid_height, lines 77-95 *)

\* CornerIndices addressing the buffer column by column.
CornerIndices_ColumnMajor(m, g) ==
    <<g.col1 * m.nrows + g.row1, g.col2 * m.nrows + g.row1,
      g.col1 * m.nrows + g.row2, g.col2 * m.nrows + g.row2>>

\* The four flat indices read at lines 82-85.
CornerIndices(m, g) ==
    <<g.row1 * m.ncols + g.col1, g.row1 * m.ncols + g.col2,
      g.row2 * m.ncols + g.col1, g.row2 * m.ncols + g.col2>>

\* Lines 87-88: the offset of x from grid line `low` in units of step.
CellOffset(x, min, low, step) ==
    DDiv(DSub(DSub(x, min), DMul(FromInt(low), step)), step)

\* Bilinear with h12 and h21 taken for each other.
Bilinear_Transposed(h11, h12, h21, h22, dlat, dlon) ==
    LET h1 == DAdd(h11, DMul(dlon, DSub(h21, h11)))
        h2 == DAdd(h12, DMul(dlon, DSub(h22, h12)))
    IN  DAdd(h1, DMul(dlat, DSub(h2, h1)))

\* Lines 90-92.
Bilinear(h11, h12, h21, h22, dlat, dlon) ==
    LET h1 == DAdd(h11, DMul(dlon, DSub(h12, h11)))
        h2 == DAdd(h21, DMul(dlon, DSub(h22, h21)))
    IN  DAdd(h1, DMul(dlat, DSub(h2, h1)))

interpolate_geoid_height(m, lat, lon, cvt) ==
    LET g == find_grid_indices(m, lat, lon, cvt)
        ix == CornerIndices(m, g)
        dlat == CellOffset(lat, m.lat_min, g.row1, m.lat_step)
        dlon == CellOffset(lon, m.lon_min, g.col1, m.lon_step)
    IN  Bilinear(DataAt(m, ix[1]), DataAt(m, ix[2]), DataAt(m, ix[3]),
                 DataAt(m, ix[4]), dlat, dlon)

----------------------------------------------------------------------------
(* compute_topographic_height, lines 175-180 *)

\* compute_topographic_height with the subtraction the other way round.
compute_topographic_height_Reversed(m, lat, lon, ellipsoid_height, cvt) ==
    DSub(interpolate_geoid_height(m, lat, lon, cvt), ellipsoid_height)

compute_topographic_height(m, lat, lon, ellipsoid_height, cvt) ==
    DSub(ellipsoid_height, interpolate_geoid_height(m, lat, lon, cvt))

----------------------------------------------------------------------------
(* The input file.  A line is the sequence of its tab-separated fields (the  *)
(* header) or of its whitespace-separated tokens (a data row).  A token is a *)
(* number, a number directly followed by other characters ("52xx"), or text  *)
(* that starts no number.                                                    *)

\* n/4 as a double
Q4(n) == RoundME(n, -2)

Num(v) == [t |-> "num", v |-> v]
NumJunk(v) == [t |-> "numjunk", v |-> v]
Junk == [t |-> "junk", v |-> DZero]

\* The text line 111 compares the first line with.
Header == <<"Longitude", "Latitude", "Height">>

Headers ==
    {Header, <<"Longitude", "Latitude">>, <<"Latitude", "Longitude", "Height">>}

LonVals == {Q4(-36), Q4(-32)}
LatVals == {Q4(160), Q4(165)}
HVals == {Q4(200)}

GoodRows == {<<Num(lo), Num(la), Num(h)>> : lo \in LonVals, la \in LatVals, h \in HVals}

OddRows ==
    {<<>>,
     <<Num(Q4(-34)), Num(Q4(162))>>,
     <<Num(Q4(-34)), Junk, Num(Q4(204))>>,
     <<NumJunk(Q4(-34)), Num(Q4(162)), Num(Q4(204))>>,
     <<Num(Q4(-34)), Num(Q4(162)), Num(Q4(204)), Num(Q4(4))>>}

Rows == GoodRows \cup OddRows

RECURSIVE SeqsUpTo(_, _)
SeqsUpTo(S, n) ==
    IF n = 0 THEN {<<>>}
    ELSE LET shorter == SeqsUpTo(S, n - 1)
         IN  shorter \cup {Append(q, x) : q \in {p \in shorter : Len(p) = n - 1}, x \in S}

NoFile == [exists |-> FALSE, header |-> <<>>, rows |-> <<>>]

Files ==
    {NoFile}
    \cup {[exists |-> TRUE, header |-> Header, rows |-> r] : r \in SeqsUpTo(Rows, MaxRows)}
    \cup {[exists |-> TRUE, header |-> hd, rows |-> r] :
             hd \in Headers \ {Header}, r \in SeqsUpTo({<<>>} \cup GoodRows, 1)}

\* Extract that takes a missing number for 0.0 instead of failing.
Extract_MissingIsZero(st) ==
    IF ~st.ok \/ (st.toks # <<>> /\ Head(st.toks).t = "junk")
    THEN [ok |-> FALSE, toks |-> st.toks, vals |-> st.vals]
    ELSE IF st.toks = <<>>
    THEN [ok |-> TRUE, toks |-> <<>>, vals |-> Append(st.vals, DZero)]
    ELSE [ok |-> TRUE,
          toks |-> IF Head(st.toks).t = "num" THEN Tail(st.toks)
                   ELSE <<Junk>> \o Tail(st.toks),
          vals |-> Append(st.vals, Head(st.toks).v)]

\* operator>>(double&) on the rest of a line, lines 150-152: skips
\* whitespace, reads the longest number and leaves what follows it.
Extract(st) ==
    IF ~st.ok \/ st.toks = <<>> \/ Head(st.toks).t = "junk"
    THEN [ok |-> FALSE, toks |-> st.toks, vals |-> st.vals]
    ELSE [ok |-> TRUE,
          toks |-> IF Head(st.toks).t = "num" THEN Tail(st.toks)
                   ELSE <<Junk>> \o Tail(st.toks),
          vals |-> Append(st.vals, Head(st.toks).v)]

\* iss >> lon >> lat >> h, line 152
ParseRow(toks) == Extract(Extract(Extract([ok |-> TRUE, toks |-> toks, vals |-> <<>>])))

\* The number of tab-separated columns of the header, lines 130-138.
CountColumns(line) == (IF line = <<>> THEN 0 ELSE Len(line) - 1) + 1

\* data[j] = v for a 0-based j (the writes of lines 158-160 stay inside the
\* row's slice of ncols >= 3 values).
Store(d, j, v) == IF InBuffer(d, j) THEN [d EXCEPT ![j + 1] = v] ELSE d

----------------------------------------------------------------------------
VARIABLES
    file,    \* the input file
    fcvt,    \* what the build's double-to-int conversion does out of range
    pc,      \* position in main / load_geoid_model
    model,   \* the GeoidModel being loaded, then queried
    i,       \* the row loop's index (line 143)
    err,     \* the message of the exception thrown, "" when none
    last     \* the last query made and what it returned

vars == <<file, fcvt, pc, model, i, err, last>>

NoIndices == [row1 |-> 0, col1 |-> 0, row2 |-> 0, col2 |-> 0]
NoCall == [op |-> "none", lat |-> DZero, lon |-> DZero, h |-> DZero,
           g |-> NoIndices, out |-> DZero]

Init ==
    /\ file \in Files
    /\ fcvt \in Conversions
    /\ pc = "open"
    /\ model = EmptyModel
    /\ i = 0
    /\ err = ""
    /\ last = NoCall

Throw(msg) == pc' = "failed" /\ err' = msg

\* Lines 102-106.
OpenFile ==
    /\ pc = "open"
    /\ IF file.exists
       THEN pc' = "header" /\ err' = err
       ELSE Throw("Error opening file")
    /\ UNCHANGED <<file, fcvt, model, i, last>>

\* CheckHeader that goes on to count the rows whatever the first line is.
CheckHeader_Unchecked ==
    /\ pc = "header"
    /\ pc' = "count" /\ err' = err /\ model' = [model EXCEPT !.nrows = 0]
    /\ UNCHANGED <<file, fcvt, i, last>>

\* Lines 108-117: the first line against the expected header.
CheckHeader ==
    /\ pc = "header"
    /\ IF file.header # Header
       THEN Throw("Invalid file format") /\ model' = model
       ELSE pc' = "count" /\ err' = err /\ model' = [model EXCEPT !.nrows = 0]
    /\ UNCHANGED <<file, fcvt, i, last>>

\* Lines 118-122, one more line of the file.
CountRow ==
    /\ pc = "count"
    /\ model.nrows < Len(file.rows)
    /\ model' = [model EXCEPT !.nrows = model.nrows + 1]
    /\ UNCHANGED <<file, fcvt, pc, i, err, last>>

\* Lines 124-141: end of file; rewind, count the columns, size the buffer.
Rewind ==
    /\ pc = "count"
    /\ model.nrows >= Len(file.rows)
    /\ LET nc == CountColumns(file.header)
       IN  model' = [model EXCEPT !.ncols = nc,
                                  !.data = [j \in 1..(model.nrows * nc) |-> DZero]]
    /\ i' = 0
    /\ pc' = "read"
    /\ UNCHANGED <<file, fcvt, err, last>>

\* Lines 143-161, one turn of the loop.
ReadRow ==
    /\ pc = "read"
    /\ i < model.nrows
    /\ IF i >= Len(file.rows)
       THEN Throw("Invalid file format") /\ UNCHANGED <<model, i>>
       ELSE LET p == ParseRow(file.rows[i + 1])
                j == i * model.ncols
            IN  IF ~p.ok
                THEN Throw("Invalid file format") /\ UNCHANGED <<model, i>>
                ELSE /\ model' = [model EXCEPT !.data =
                            Store(Store(Store(@, j, p.vals[1]), j + 1, p.vals[2]),
                                  j + 2, p.vals[3])]
                     /\ i' = i + 1
                     /\ UNCHANGED <<pc, err>>
    /\ UNCHANGED <<file, fcvt, last>>

\* The flat indices read at lines 164-167.
LonMinIndex == 0
LatMinIndex == 1
LonMaxIndex(m) == (m.ncols - 1) * 3
LatMaxIndex(m) == (m.nrows - 1) * m.ncols + 1
DeriveIndices(m) == {LonMinIndex, LatMinIndex, LonMaxIndex(m), LatMaxIndex(m)}

\* What a read past the end of the allocated buffer can find there.
Garbage == {DZero, Q4(-36)}

\* Lines 163-171.  A read outside the buffer is undefined behaviour: an
\* empty vector has no storage and the read faults; past the end of a
\* buffer that exists the read faults or finds whatever lies there.
Derive ==
    /\ pc = "read"
    /\ i >= model.nrows
    /\ LET stray == {x \in DeriveIndices(model) : ~InBuffer(model.data, x)}
       IN  \/ /\ stray # {}
              /\ pc' = "crashed"
              /\ model' = model
           \/ /\ stray = {} \/ model.data # <<>>
              /\ \E junk \in (IF stray = {} THEN {DZero} ELSE Garbage) :
                   LET rd(x) == IF InBuffer(model.data, x) THEN model.data[x + 1] ELSE junk
                       lonmin == rd(LonMinIndex)
                       latmin == rd(LatMinIndex)
                       lon_max == rd(LonMaxIndex(model))
                       lat_max == rd(LatMaxIndex(model))
                   IN  model' = [model EXCEPT
                           !.lon_min = lonmin,
                           !.lat_min = latmin,
                           !.lon_step = DDiv(DSub(lon_max, lonmin), FromInt(model.ncols - 1)),
                           !.lat_step = DDiv(DSub(lat_max, latmin), FromInt(model.nrows - 1))]
              /\ pc' = "ready"
    /\ UNCHANGED <<file, fcvt, i, err, last>>

----------------------------------------------------------------------------
(* The queries on a loaded model: the calls main makes at lines 191 and 196, *)
(* and find_grid_indices on its own, with any coordinate.  A call leaves its *)
(* arguments and result in `last` (pc = "called"); the caller then takes the *)
(* result and goes on (Return), any number of times.                         *)

\* 3 * 2^30: a finite coordinate whose row or column does not fit in int.
Huge == Fin(3, 30)

FixedLats == {Q4(156), Q4(161), Q4(162), Q4(168), Huge}
FixedLons == {Q4(-35), Q4(-34), Q4(-28), DNeg(Huge)}
EllipsoidHeights == {Q4(592)}

\* The coordinate of grid line n: min + n*step.
GridCoord(min, step, n) == DAdd(min, DMul(FromInt(n), step))

QueryLats(m) == FixedLats \cup {GridCoord(m.lat_min, m.lat_step, r) : r \in 0..(m.nrows - 1)}
QueryLons(m) == FixedLons \cup {GridCoord(m.lon_min, m.lon_step, c) : c \in 0..(m.ncols - 1)}

FindGridIndices ==
    /\ pc = "ready"
    /\ \E lat \in QueryLats(model), lon \in QueryLons(model) :
         last' = [op |-> "find", lat |-> lat, lon |-> lon, h |-> DZero,
                  g |-> find_grid_indices(model, lat, lon, fcvt), out |-> DZero]
    /\ pc' = "called"
    /\ UNCHANGED <<file, fcvt, model, i, err>>

InterpolateGeoidHeight ==
    /\ pc = "ready"
    /\ \E lat \in QueryLats(model), lon \in QueryLons(model) :
         last' = [op |-> "interpolate", lat |-> lat, lon |-> lon, h |-> DZero,
                  g |-> NoIndices,
                  out |-> interpolate_geoid_height(model, lat, lon, fcvt)]
    /\ pc' = "called"
    /\ UNCHANGED <<file, fcvt, model, i, err>>

ComputeTopographicHeight ==
    /\ pc = "ready"
    /\ \E lat \in QueryLats(model), lon \in QueryLons(model), h \in EllipsoidHeights :
         last' = [op |-> "topographic", lat |-> lat, lon |-> lon, h |-> h,
                  g |-> NoIndices,
                  out |-> compute_topographic_height(model, lat, lon, h, fcvt)]
    /\ pc' = "called"
    /\ UNCHANGED <<file, fcvt, model, i, err>>

\* The caller uses the value returned (lines 191-197) and goes on.
Return ==
    /\ pc = "called"
    /\ pc' = "ready"
    /\ last' = NoCall
    /\ UNCHANGED <<file, fcvt, model, i, err>>

Next ==
    \/ OpenFile
    \/ CheckHeader
    \/ CountRow
    \/ Rewind
    \/ ReadRow
    \/ Derive
    \/ FindGridIndices
    \/ InterpolateGeoidHeight
    \/ ComputeTopographicHeight
    \/ Return

Spec == Init /\ [][Next]_vars

----------------------------------------------------------------------------
(* The same queries on a GeoidModel the caller fills in field by field (the  *)
(* struct is public): rectangular grids of Shapes with one value per cell.   *)

CornerVals == {Q4(192), Q4(196), Q4(200), Q4(208)}
Shapes == {<<2, 2>>, <<1, 2>>, <<2, 1>>}

Grids ==
    {GeoidModel(sh[1], sh[2], Q4(160), Q4(-36), Q4(4), Q4(4), d) :
        sh \in Shapes, d \in UNION {[1..(s[1] * s[2]) -> CornerVals] : s \in Shapes}}

InitGrid ==
    /\ file = NoFile
    /\ fcvt \in Conversions
    /\ pc = "ready"
    /\ model \in {m \in Grids : Len(m.data) = m.nrows * m.ncols}
    /\ i = 0
    /\ err = ""
    /\ last = NoCall

NextGrid ==
    \/ FindGridIndices
    \/ InterpolateGeoidHeight
    \/ ComputeTopographicHeight
    \/ Return

SpecGrid == InitGrid /\ [][NextGrid]_vars

----------------------------------------------------------------------------
(* Vocabulary of the properties *)

Loaded == pc \in {"ready", "called"}
Ended == pc \in {"ready", "called", "failed", "crashed"}
HeaderOk == file.exists /\ file.header = Header

\* The fractional row and column of a query (lines 61-62).
FracRow(m, lat) == DDiv(DSub(lat, m.lat_min), m.lat_step)
FracCol(m, lon) == DDiv(DSub(lon, m.lon_min), m.lon_step)

\* Both steps are finite and not zero.
StepsUsable(m) ==
    /\ IsFinite(m.lat_step) /\ m.lat_step.m # 0
    /\ IsFinite(m.lon_step) /\ m.lon_step.m # 0

\* The grid indices (r, c) whose coordinates are exactly the query's.
GridPointsOf(m, lat, lon) ==
    {rc \in (0..(m.nrows - 1)) \X (0..(m.ncols - 1)) :
        /\ lat = GridCoord(m.lat_min, m.lat_step, rc[1])
        /\ lon = GridCoord(m.lon_min, m.lon_step, rc[2])}

Interpolated == pc = "called" /\ last.op = "interpolate"

----------------------------------------------------------------------------
\* C1 (as stated): on a loaded grid with non-zero steps, interpolating at the
\* coordinates lat_min + r*lat_step, lon_min + c*lon_step of any grid index
\* (r, c) returns exactly the stored value data[r*ncols + c].  (Stated on the
\* files of three rows or more, whose load reads nothing outside the buffer.)
C1_RoundTripExact ==
    (Interpolated /\ StepsUsable(model) /\ model.nrows >= 3) =>
        \A rc \in GridPointsOf(model, last.lat, last.lon) :
            last.out = DataAt(model, rc[1] * model.ncols + rc[2])

\* C1 (amended): the round trip is exact whenever the fractional row and
\* column that find_grid_indices computes for those coordinates are exactly
\* r and c, that is when the coordinate arithmetic rounds nothing away.
C1_RoundTripWhenOnGridLine ==
    (Interpolated /\ StepsUsable(model)) =>
        \A rc \in GridPointsOf(model, last.lat, last.lon) :
            (/\ FracRow(model, last.lat) = FromInt(rc[1])
             /\ FracCol(model, last.lon) = FromInt(rc[2]))
            => last.out = DataAt(model, rc[1] * model.ncols + rc[2])

\* A round trip at an inner grid point (r, c >= 1) that came back exact.
C1_Witness ==
    /\ Interpolated /\ StepsUsable(model)
    /\ \E rc \in GridPointsOf(model, last.lat, last.lon) :
         /\ rc[1] >= 1 /\ rc[2] >= 1
         /\ FracRow(model, last.lat) = FromInt(rc[1])
         /\ FracCol(model, last.lon) = FromInt(rc[2])
         /\ last.out = DataAt(model, rc[1] * model.ncols + rc[2])
         /\ last.out # DataAt(model, rc[2] * model.nrows + rc[1])

----------------------------------------------------------------------------
\* C2: whatever the query, find_grid_indices returns rows in [0, nrows-1] and
\* columns in [0, ncols-1] and raises no error, so the four reads of
\* interpolate_geoid_height fall inside the buffer of nrows*ncols values.
C2_ReadsInBounds ==
    pc = "called" =>
        LET g == IF last.op = "find" THEN last.g
                 ELSE find_grid_indices(model, last.lat, last.lon, fcvt)
            ix == CornerIndices(model, g)
        IN  /\ err = ""
            /\ g.row1 \in 0..(model.nrows - 1) /\ g.row2 \in 0..(model.nrows - 1)
            /\ g.col1 \in 0..(model.ncols - 1) /\ g.col2 \in 0..(model.ncols - 1)
            /\ Len(model.data) = model.nrows * model.ncols
            /\ \A n \in 1..4 : InBuffer(model.data, ix[n])

\* A query far outside the grid whose row had to be clamped.
C2_Witness ==
    /\ pc = "called" /\ last.op = "find"
    /\ StepsUsable(model) /\ model.nrows >= 3
    /\ last.lat = Huge /\ last.lon = DNeg(Huge)
    /\ last.g.row1 \in 0..(model.nrows - 1)

----------------------------------------------------------------------------
\* The latitude bound a query lies beyond, if any: lat_min or the last grid
\* line, whichever the query is outside of (for either sign of the step).
LatBounds(m, lat) ==
    LET lo == m.lat_min
        hi == GridCoord(m.lat_min, m.lat_step, m.nrows - 1)
        up == m.lat_step.m > 0
    IN  {b \in {lo, hi} :
            \/ b = lo /\ (IF up THEN DLt(lat, lo) ELSE DLt(lo, lat))
            \/ b = hi /\ (IF up THEN DLt(hi, lat) ELSE DLt(lat, hi))}

LonBounds(m, lon) ==
    LET lo == m.lon_min
        hi == GridCoord(m.lon_min, m.lon_step, m.ncols - 1)
        up == m.lon_step.m > 0
    IN  {b \in {lo, hi} :
            \/ b = lo /\ (IF up THEN DLt(lon, lo) ELSE DLt(lo, lon))
            \/ b = hi /\ (IF up THEN DLt(hi, lon) ELSE DLt(lon, hi))}

\* C3 (as stated): a query beyond a bound of the grid gets the same four
\* indices as the coordinate exactly at that bound, however far outside.
C3_MonotonicClamping ==
    (pc = "called" /\ last.op = "find" /\ StepsUsable(model)) =>
        /\ \A b \in LatBounds(model, last.lat) :
             last.g = find_grid_indices(model, b, last.lon, fcvt)
        /\ \A b \in LonBounds(model, last.lon) :
             last.g = find_grid_indices(model, last.lat, b, fcvt)

----------------------------------------------------------------------------
\* C4: when the first line is not the expected header, the load fails with
\* the format error and returns no model; the header is checked before any
\* row is counted or stored.
C4_HeaderRejected ==
    (file.exists /\ file.header # Header /\ pc \notin {"open", "header"}) =>
        /\ pc = "failed"
        /\ err = "Invalid file format"
        /\ model = EmptyModel

\* A file with a wrong header and a data row, rejected.
C4_Witness ==
    /\ file.exists /\ file.header # Header /\ Len(file.rows) >= 1
    /\ pc = "failed" /\ err = "Invalid file format"

----------------------------------------------------------------------------
\* The row holds exactly three tokens, each a floating-point number.
ExactlyThreeNumbers(toks) == Len(toks) = 3 /\ \A n \in 1..3 : toks[n].t = "num"

\* The row starts with three floating-point numbers; whatever follows the
\* third (more tokens, or text directly after it) is not looked at.
StartsWithThreeNumbers(toks) ==
    /\ Len(toks) >= 3
    /\ toks[1].t = "num" /\ toks[2].t = "num"
    /\ toks[3].t \in {"num", "numjunk"}

\* C5 (as stated): the load succeeds only if every data row consists of
\* exactly three floating-point tokens; fewer, more, or a blank row fail it.
\* (Stated on the files of three rows or more, as C1.)
C5_ExactlyThreeTokens ==
    (Loaded /\ model.nrows >= 3) => \A n \in 1..Len(file.rows) : ExactlyThreeNumbers(file.rows[n])

\* C5 (amended): the load succeeds only if every data row starts with three
\* floating-point numbers; a row with fewer (two, none: a blank row) fails
\* it with the format error, a row with more than three tokens is accepted.
C5_AtLeastThreeNumbers ==
    /\ Loaded => \A n \in 1..Len(file.rows) : StartsWithThreeNumbers(file.rows[n])
    /\ (HeaderOk /\ Ended /\ \E n \in 1..Len(file.rows) : ~StartsWithThreeNumbers(file.rows[n]))
           => (pc = "failed" /\ err = "Invalid file format")
    /\ (HeaderOk /\ pc = "failed")
           => \E n \in 1..Len(file.rows) : ~StartsWithThreeNumbers(file.rows[n])

\* A file with a row of four tokens, loaded.
C5_Witness ==
    /\ pc = "ready"
    /\ Len(file.rows) = 3
    /\ \E n \in 1..Len(file.rows) : Len(file.rows[n]) = 4

----------------------------------------------------------------------------
\* C6 (as stated): a valid header followed by no data row makes the load fail
\* with the format error; every model returned has nrows >= 1 and ncols >= 1.
C6_ZeroRowsRejected ==
    /\ (HeaderOk /\ file.rows = <<>> /\ Ended)
           => (pc = "failed" /\ err = "Invalid file format")
    /\ Loaded => (model.nrows >= 1 /\ model.ncols >= 1)

----------------------------------------------------------------------------
\* C7: compute_topographic_height(model, lat, lon, h) is
\* h - interpolate_geoid_height(model, lat, lon), whatever queries came
\* before, and no query changes a field of the model.
C7_TopographicIdentity ==
    [][Loaded =>
         /\ model' = model
         /\ (pc' = "called" /\ last'.op = "topographic") =>
                last'.out = DSub(last'.h,
                                 interpolate_geoid_height(model, last'.lat, last'.lon, fcvt))]_vars

\* Ellipsoid height 148.0 over a geoid height of 50.0 gave 98.0.
C7_Witness ==
    /\ pc = "called" /\ last.op = "topographic"
    /\ last.h = Q4(592)
    /\ interpolate_geoid_height(model, last.lat, last.lon, fcvt) = Q4(200)
    /\ last.out = Q4(392)

----------------------------------------------------------------------------
\* The query lies strictly inside a cell: its fractional row and column are
\* no integers and lie between the first and the last grid line.
StrictlyInside(m, lat, lon) ==
    LET row == FracRow(m, lat)
        col == FracCol(m, lon)
    IN  /\ IsFinite(row) /\ IsFinite(col)
        /\ DFloor(row) # row /\ DFloor(col) # col
        /\ DLt(DZero, row) /\ DLt(row, FromInt(m.nrows - 1))
        /\ DLt(DZero, col) /\ DLt(col, FromInt(m.ncols - 1))

\* The value of cell (r, c).
Cell(m, r, c) == DataAt(m, r * m.ncols + c)

----------------------------------------------------------------------------
\* The fractional row (column) lies outside the grid lines 0 .. n-1.
OutsideLines(x, n) == IsFinite(x) /\ (DLt(x, DZero) \/ DLt(FromInt(n - 1), x))

\* The cell of the grid's edge nearest to an outside fractional position.
EdgeLow(x, n) == IF DLt(x, DZero) THEN 0 ELSE n - 2

----------------------------------------------------------------------------
\* C10 (as stated): once the header and the rows have passed, every index
\* load_geoid_model uses on the buffer is inside it (the writes of a row, the
\* reads data[0], data[1], data[(ncols-1)*3], data[(nrows-1)*ncols + 1]) and
\* the divisors ncols-1 and nrows-1 are not zero.
C10_LoadIndicesInRange ==
    /\ (pc = "read" /\ i < model.nrows) =>
           \A n \in 0..2 : InBuffer(model.data, i * model.ncols + n)
    /\ (pc = "read" /\ i >= model.nrows) =>
           /\ \A x \in DeriveIndices(model) : InBuffer(model.data, x)
           /\ model.ncols - 1 # 0
           /\ model.nrows - 1 # 0

====
